---- MODULE Spec2Model ----
(***************************************************************************)
(* Model of package log (log/log.go): the capturing Writer, its Write and  *)
(* Close methods, and the handler built by Middleware, which installs a    *)
(* Writer on the response and calls the next handler.                      *)
(*                                                                         *)
(* The environment is the framework around the package: a stack of log     *)
(* middlewares configured once, requests that pass through the whole stack *)
(* and whose response is then written and closed through its active sink,  *)
(* the original sink of each response (which accepts or refuses bytes and  *)
(* may or may not be an io.Closer), the clock and the access logger.       *)
(***************************************************************************)
EXTENDS Integers, Sequences, FiniteSets, TLC

\* ------------------------------------------------------------------ bounds
MaxLayers == 2   \* log middlewares stacked on one router
MaxWrites == 2   \* Write calls made on one response
MaxCloses == 2   \* Close calls made on one response

Requests == {1, 2}
Nil == "nil"
WriteErr == "EIO"
CloseErrs == {Nil, "ECLOSE"}

\* The bytes of a response carry the request they were written for.
Byte(r, i) == 10 * r + i
Chunks(r) == {<<>>, <<Byte(r, 1)>>, <<Byte(r, 2), Byte(r, 1)>>}

\* What a sink answers to Write(b): all of b accepted and no error, or an
\* error with the last byte of b not accepted (with nothing accepted when b
\* is empty).
SinkOutcomes(b) ==
  {[n |-> Len(b), err |-> Nil],
   [n |-> IF Len(b) = 0 THEN 0 ELSE Len(b) - 1, err |-> WriteErr]}

VARIABLES
  clock,       \* time.Now()
  stack,       \* the log middlewares of the router, outermost first
  phase,       \* per request: "absent", "pending" or "handled"
  writers,     \* the Writer structs constructed so far, by id 1..Len(writers)
  respWriter,  \* response.Writer(): the active sink of each response
  closable,    \* whether a response's original sink implements io.Closer
  sinkData,    \* the bytes each original sink accepted
  accessLog,   \* the lines printed to goyave.AccessLogger
  fmtCalls,    \* the arguments of every formatter invocation, in order
  calls,       \* per sink: the Write calls it received and what they returned
  closeCalls,  \* per sink: the Close calls it received and what they returned
  nextCalls,   \* per request: the invocations of the next handler
  last,        \* the call just made by the framework and what it returned
  budget       \* per request: the Write and Close calls still to be made

vars == <<clock, stack, phase, writers, respWriter, closable, sinkData,
          accessLog, fmtCalls, calls, closeCalls, nextCalls, last, budget>>

\* ----------------------------------------------------------------- sinks
\* A sink is an integer: -r is the original sink of response r, w > 0 is
\* the Writer with id w.
BaseSink(r) == 0 - r
IsWriter(s) == s > 0
BaseRequest(s) == 0 - s
WriterIds == 1..(2 * MaxLayers)
Sinks == {BaseSink(r) : r \in Requests} \cup WriterIds

ResponseOf(r) == <<"response", r>>
RequestOf(r) == <<"request", r>>

\* The Writers of the chain headed by sink s, outermost first.
RECURSIVE Chain(_)
Chain(s) == IF IsWriter(s) THEN <<s>> \o Chain(writers[s].writer) ELSE <<>>

\* The original sink under sink s.
RECURSIVE BaseOf(_)
BaseOf(s) == IF IsWriter(s) THEN BaseOf(writers[s].writer) ELSE s

RECURSIVE Flatten(_)
Flatten(seq) == IF seq = <<>> THEN <<>> ELSE Head(seq) \o Flatten(Tail(seq))

\* --------------------------------------------------------------- formatter
\* A log line in the common / combined style: it names the request, the
\* timestamp and the size of the body, not the body itself.
Format(f, now, response, request, body) ==
  [format |-> f, now |-> now, request |-> request, response |-> response,
   size |-> Len(body)]

\* Faulty variant: the line is printed twice.
PrintlnTwice(log, line) == Append(Append(log, line), line)

\* log.Logger.Println: one line appended to the logger's output.
Println(log, line) == Append(log, line)

\* -------------------------------------------------------------- NewWriter
\* In NewWriter st carries the clock, the writers, the active sinks and the
\* next calls.
\* Faulty variants: the Writer wraps the response's original sink instead
\* of its current one; the time is read once for all requests.
NewWriterSharedTime(st, response, request, formatter) ==
  [now |-> 0,
   request |-> RequestOf(request),
   writer |-> st.respWriter[response],
   response |-> ResponseOf(response),
   body |-> <<>>,
   formatter |-> formatter]

NewWriterOnOriginalSink(st, response, request, formatter) ==
  [now |-> st.clock,
   request |-> RequestOf(request),
   writer |-> BaseSink(response),
   response |-> ResponseOf(response),
   body |-> <<>>,
   formatter |-> formatter]

NewWriter(st, response, request, formatter) ==
  [now |-> st.clock,
   request |-> RequestOf(request),
   writer |-> st.respWriter[response],
   response |-> ResponseOf(response),
   body |-> <<>>,
   formatter |-> formatter]

\* ------------------------------------------------------------ Writer.Write
\* Faulty variants: the new bytes go in front; the new bytes replace the
\* buffer.
AppendBodyPrepend(body, b) == b \o body

AppendBodyOverwrite(body, b) == b

\* w.body = append(w.body, b...)
AppendBody(body, b) == body \o b

\* the bytes handed to w.writer.Write
ForwardedBytes(b) == b

\* Faulty variant: the length of b is reported instead of the sink's count.
WriteReturnLen(sinkRet, b) == [n |-> Len(b), err |-> sinkRet.err]

\* return w.writer.Write(b)
WriteReturn(sinkRet, b) == sinkRet

\* The original sink: it accepts the first out.n bytes and answers out.
SinkWrite(s, b, out, st) ==
  LET n == IF out.n < Len(b) THEN out.n ELSE Len(b)
  IN [st |-> [st EXCEPT !.sinkData[BaseRequest(s)] = @ \o SubSeq(b, 1, n),
                        !.calls[s] = Append(@, [b |-> b, n |-> n, err |-> out.err])],
      ret |-> [n |-> n, err |-> out.err]]

\* Write on sink s: a Writer buffers and forwards to its own sink, which
\* may be another Writer.  st carries the writers, the sink data and the
\* log of Write calls.
RECURSIVE WriterWrite(_, _, _, _)
WriterWrite(s, b, out, st) ==
  IF IsWriter(s)
  THEN LET st1 == [st EXCEPT !.writers[s].body = AppendBody(@, b)]
           res == WriterWrite(st.writers[s].writer, ForwardedBytes(b), out, st1)
           ret == WriteReturn(res.ret, b)
       IN [st |-> [res.st EXCEPT !.calls[s] =
                      Append(@, [b |-> b, n |-> ret.n, err |-> ret.err])],
           ret |-> ret]
  ELSE SinkWrite(s, b, out, st)

\* ------------------------------------------------------------ Writer.Close
\* Faulty variant: only an original sink is recognised as a Closer.
SinkIsCloserOriginalOnly(s) == ~IsWriter(s) /\ closable[BaseRequest(s)]

\* wr, ok := w.writer.(io.Closer)
SinkIsCloser(s) == IsWriter(s) \/ closable[BaseRequest(s)]

\* Faulty variant: the formatter is given the time of the Close.
FormatterArgsTimeOfClose(w) ==
  [w |-> w, formatter |-> writers[w].formatter, now |-> clock,
   response |-> writers[w].response, request |-> writers[w].request,
   body |-> writers[w].body]

\* the arguments Close hands to the formatter
FormatterArgs(w) ==
  [w |-> w, formatter |-> writers[w].formatter, now |-> writers[w].now,
   response |-> writers[w].response, request |-> writers[w].request,
   body |-> writers[w].body]

\* Faulty variants: a sink that cannot be closed is reported as an error;
\* the sink's error is swallowed.
CloseReturnUnsupported(isCloser, sinkErr) ==
  IF isCloser THEN sinkErr ELSE "ENOTSUP"

CloseReturnSwallow(isCloser, sinkErr) == Nil

\* what Close returns: the sink's Close result when the sink is a Closer
CloseReturn(isCloser, sinkErr) == IF isCloser THEN sinkErr ELSE Nil

\* Close on sink s.  st carries the access log, the formatter calls and
\* the log of Close calls; e is what the original sink's Close answers.
\* A Close call is logged with its result, the length of the access log
\* and the number of Write calls made when it was entered, and the time.
RECURSIVE WriterClose(_, _, _)
WriterClose(s, e, st) ==
  LET entry == [err |-> e, at |-> Len(st.accessLog), writes |-> Len(calls[s]),
                time |-> clock]
  IN IF IsWriter(s)
     THEN LET a == FormatterArgs(s)
              line == Format(a.formatter, a.now, a.response, a.request, a.body)
              st1 == [st EXCEPT !.accessLog = Println(@, line),
                                !.fmtCalls = Append(@, a)]
              fwd == SinkIsCloser(writers[s].writer)
              res == IF fwd THEN WriterClose(writers[s].writer, e, st1)
                            ELSE [st |-> st1, ret |-> Nil]
              ret == CloseReturn(fwd, res.ret)
          IN [st |-> [res.st EXCEPT !.closeCalls[s] =
                         Append(@, [entry EXCEPT !.err = ret])],
              ret |-> ret]
     ELSE [st |-> [st EXCEPT !.closeCalls[s] = Append(@, entry)], ret |-> e]

\* -------------------------------------------------------------- Middleware
\* Middleware(formatter): a middleware is known by its formatter.
Middleware(formatter) == [formatter |-> formatter]

CommonLogMiddleware == Middleware("common")

CombinedLogMiddleware == Middleware("combined")

\* response.SetWriter(logWriter)
SetWriter(st, r, id) == [st EXCEPT !.respWriter[r] = id]

\* The handler of layer i of the stack, run on (response r, request r):
\* NewWriter, SetWriter, then next(response, request), which is the handler
\* of layer i + 1; below the last layer next is the final handler, whose
\* writes are the Write action.  Every time.Now() reads a later time.
RECURSIVE MiddlewareHandler(_, _, _)
MiddlewareHandler(r, i, st) ==
  IF i > Len(stack)
  THEN st
  ELSE LET logWriter == NewWriter(st, r, r, stack[i].formatter)
           id == Len(st.writers) + 1
           st1 == [st EXCEPT !.writers = Append(@, logWriter), !.clock = @ + 1]
           st2 == SetWriter(st1, r, id)
           st3 == [st2 EXCEPT !.nextCalls[r] =
                      Append(@, [by |-> id, entered |-> st.clock,
                                 response |-> ResponseOf(r),
                                 request |-> RequestOf(r),
                                 sink |-> st2.respWriter[r]])]
       IN MiddlewareHandler(r, i + 1, st3)

\* ------------------------------------------------------------------- Init
\* The stacks a router is configured with: up to MaxLayers log middlewares,
\* the common and the combined one in turn, the common one outermost.
Stacks ==
  {[i \in 1..k |-> IF i % 2 = 1 THEN CommonLogMiddleware ELSE CombinedLogMiddleware] :
     k \in 1..MaxLayers}

InitCommon ==
  /\ clock = 0
  /\ writers = <<>>
  /\ respWriter = [r \in Requests |-> BaseSink(r)]
  /\ closable \in [Requests -> BOOLEAN]
  /\ sinkData = [r \in Requests |-> <<>>]
  /\ accessLog = <<>>
  /\ fmtCalls = <<>>
  /\ calls = [s \in Sinks |-> <<>>]
  /\ closeCalls = [s \in Sinks |-> <<>>]
  /\ nextCalls = [r \in Requests |-> <<>>]
  /\ last = [op |-> "init", r |-> 0, n |-> 0, err |-> Nil]

\* One request, through a stack of up to MaxLayers log middlewares.
Init ==
  /\ InitCommon
  /\ stack \in Stacks
  /\ phase = [r \in Requests |-> IF r = 1 THEN "pending" ELSE "absent"]
  /\ closable[2] = FALSE
  /\ budget = [r \in Requests |->
                 IF r = 1 THEN [write |-> MaxWrites, close |-> MaxCloses]
                          ELSE [write |-> 0, close |-> 0]]

\* Two requests through the same middleware, each written once and closed
\* once, in any interleaving.
PairBudget == [write |-> 1, close |-> 1]

InitPair ==
  /\ InitCommon
  /\ stack \in {s \in Stacks : Len(s) = 1}
  /\ phase = [r \in Requests |-> "pending"]
  /\ budget = [r \in Requests |-> PairBudget]

\* ---------------------------------------------------------------- actions
\* A request arrives and passes through the stack.
Dispatch(r) ==
  /\ phase[r] = "pending"
  /\ phase' = [phase EXCEPT ![r] = "handled"]
  /\ LET st == MiddlewareHandler(r, 1,
                  [clock |-> clock, writers |-> writers,
                   respWriter |-> respWriter, nextCalls |-> nextCalls])
     IN /\ clock' = st.clock
        /\ writers' = st.writers
        /\ respWriter' = st.respWriter
        /\ nextCalls' = st.nextCalls
  /\ last' = [op |-> "Dispatch", r |-> r, n |-> 0, err |-> Nil]
  /\ UNCHANGED <<stack, closable, sinkData, accessLog, fmtCalls, calls,
                 closeCalls, budget>>

\* The response is written: Write on its active sink.
Write(r, b, out) ==
  /\ phase[r] = "handled"
  /\ budget[r].write > 0
  /\ LET res == WriterWrite(respWriter[r], b, out,
                   [writers |-> writers, sinkData |-> sinkData, calls |-> calls])
     IN /\ writers' = res.st.writers
        /\ sinkData' = res.st.sinkData
        /\ calls' = res.st.calls
        /\ last' = [op |-> "Write", r |-> r, n |-> res.ret.n, err |-> res.ret.err]
  /\ budget' = [budget EXCEPT ![r].write = @ - 1]
  /\ clock' = clock + 1
  /\ UNCHANGED <<stack, phase, respWriter, closable, accessLog, fmtCalls,
                 closeCalls, nextCalls>>

\* The response is closed: Close on its active sink (a Writer).
Close(r, e) ==
  /\ phase[r] = "handled"
  /\ budget[r].close > 0
  /\ closable[r] \/ e = Nil
  /\ LET res == WriterClose(respWriter[r], e,
                   [accessLog |-> accessLog, fmtCalls |-> fmtCalls,
                    closeCalls |-> closeCalls])
     IN /\ accessLog' = res.st.accessLog
        /\ fmtCalls' = res.st.fmtCalls
        /\ closeCalls' = res.st.closeCalls
        /\ last' = [op |-> "Close", r |-> r, n |-> 0, err |-> res.ret]
  /\ budget' = [budget EXCEPT ![r].close = @ - 1]
  /\ clock' = clock + 1
  /\ UNCHANGED <<stack, phase, writers, respWriter, closable, sinkData,
                 calls, nextCalls>>

Next ==
  \/ \E r \in Requests : Dispatch(r)
  \/ \E r \in Requests : \E b \in Chunks(r) : \E out \in SinkOutcomes(b) :
        Write(r, b, out)
  \/ \E r \in Requests, e \in CloseErrs : Close(r, e)

Spec == Init /\ [][Next]_vars

SpecPair == InitPair /\ [][Next]_vars

TypeOK ==
  /\ Len(writers) <= 2 * MaxLayers
  /\ \A r \in Requests : respWriter[r] \in Sinks

\* ---------------------------------------------------------------- helpers
Made == 1..Len(writers)

\* The request whose handling constructed Writer w.
OwnerOf(w) == CHOOSE r \in Requests : \E j \in 1..Len(nextCalls[r]) : nextCalls[r][j].by = w

\* The byte slices Writer Write was called with on sink s, in call order.
Args(s) == [i \in 1..Len(calls[s]) |-> calls[s][i].b]

\* The indices of the formatter invocations made by Writer w.
FmtIdx(w) == {i \in 1..Len(fmtCalls) : fmtCalls[i].w = w}

\* The bytes offered and not accepted, over a log of Write calls.
RECURSIVE Refused(_)
Refused(log) ==
  IF log = <<>> THEN 0 ELSE (Len(Head(log).b) - Head(log).n) + Refused(Tail(log))

IsSuffix(t, seq) ==
  Len(t) <= Len(seq) /\ SubSeq(seq, Len(seq) - Len(t) + 1, Len(seq)) = t

\* ------------------------------------------------------------------ C1
\* C1: the body buffer of every Writer equals the concatenation, in call
\* order, of the byte slices its Write was called with (empty before the
\* first Write), whatever the sink answered.
C1_BufferIsConcatenation ==
  \A w \in Made : writers[w].body = Flatten(Args(w))

C1_Witness ==
  \E w \in Made :
    /\ Len(calls[w]) = 2
    /\ calls[w][1].b # <<>> /\ calls[w][2].b # <<>>
    /\ calls[w][1].b # calls[w][2].b
    /\ calls[w][1].err # Nil

\* ------------------------------------------------------------------ C2
\* C2 as stated: a Writer that was closed has had its formatter invoked
\* exactly once, and that invocation came after the last Write.
C2_ExactlyOncePerClosedWriter ==
  \A w \in Made :
    closeCalls[w] # <<>> =>
      /\ Cardinality(FmtIdx(w)) = 1
      /\ \A j \in 1..Len(closeCalls[w]) : closeCalls[w][j].writes = Len(calls[w])

\* C2 as amended: every Close call on a Writer invokes the formatter
\* exactly once and prints exactly one line, and nothing else does: the
\* formatter invocations of a Writer are as many as its Close calls, each
\* made by one of them, and each line of the access log is the line of one
\* formatter invocation.
C2_OneLinePerClose ==
  /\ Len(accessLog) = Len(fmtCalls)
  /\ \A w \in Made :
       /\ Cardinality(FmtIdx(w)) = Len(closeCalls[w])
       /\ \A j \in 1..Len(closeCalls[w]) :
            /\ closeCalls[w][j].at + 1 \in FmtIdx(w)
            /\ \A i \in 1..Len(closeCalls[w]) :
                 i # j => closeCalls[w][i].at # closeCalls[w][j].at

C2_Witness ==
  \E w \in Made :
    /\ Len(closeCalls[w]) = 2
    /\ closeCalls[w][1].writes < Len(calls[w])

\* ------------------------------------------------------------------ C3
\* C3: the sink of a Writer received exactly the Write calls the Writer
\* received, with the same bytes, and each Write returned to its caller the
\* byte count and error its sink returned.
C3_WritePassThrough ==
  /\ \A w \in Made : calls[w] = calls[writers[w].writer]
  /\ last.op = "Write" =>
       LET log == calls[respWriter[last.r]]
       IN log # <<>> /\ last.n = log[Len(log)].n /\ last.err = log[Len(log)].err

C3_Witness ==
  \E w \in Made :
    /\ IsWriter(writers[w].writer)
    /\ \E i \in 1..Len(calls[w]) :
         calls[w][i].err # Nil /\ calls[w][i].n < Len(calls[w][i].b) /\ calls[w][i].n > 0

\* ------------------------------------------------------------------ C4
\* C4: every Close of a Writer whose sink is not an io.Closer returned nil
\* and printed the Writer's line, and the sink was never closed.
C4_NonCloserSinkCloseNil ==
  \A w \in Made :
    LET v == writers[w].writer
    IN (~IsWriter(v) /\ ~closable[BaseRequest(v)]) =>
         /\ closeCalls[v] = <<>>
         /\ \A j \in 1..Len(closeCalls[w]) :
              /\ closeCalls[w][j].err = Nil
              /\ closeCalls[w][j].at < Len(fmtCalls)
              /\ fmtCalls[closeCalls[w][j].at + 1].w = w

C4_Witness ==
  \E w \in Made :
    /\ ~IsWriter(writers[w].writer) /\ ~closable[BaseRequest(writers[w].writer)]
    /\ closeCalls[w] # <<>>
    /\ \E i \in 1..Len(calls[w]) : calls[w][i].err # Nil

\* ------------------------------------------------------------------ C5
\* C5: when the sink of a Writer is an io.Closer, every Close of the Writer
\* closed the sink exactly once, after the Writer's line was printed, and
\* returned what the sink's Close returned.
C5_CloserSinkCloseForwarded ==
  \A w \in Made :
    LET v == writers[w].writer
    IN (IsWriter(v) \/ closable[BaseRequest(v)]) =>
         /\ Len(closeCalls[v]) = Len(closeCalls[w])
         /\ \A j \in 1..Len(closeCalls[w]) :
              /\ closeCalls[v][j].err = closeCalls[w][j].err
              /\ closeCalls[v][j].at = closeCalls[w][j].at + 1
              /\ closeCalls[w][j].at < Len(fmtCalls)
              /\ fmtCalls[closeCalls[w][j].at + 1].w = w
              /\ Len(accessLog) > closeCalls[w][j].at

C5_Witness ==
  \E w \in Made :
    /\ ~IsWriter(writers[w].writer) /\ closable[BaseRequest(writers[w].writer)]
    /\ \E j \in 1..Len(closeCalls[w]) : closeCalls[w][j].err # Nil
    /\ \E j \in 1..Len(closeCalls[w]) : closeCalls[w][j].err = Nil

\* ------------------------------------------------------------------ C6
\* C6: every formatter invocation was made by a Close of a Writer and
\* received the time at which that Writer was constructed (earlier than
\* the time of the Close), the request and response the Writer was
\* constructed with, its formatter, and the concatenation of the bytes
\* written to the Writer before that Close; the line printed is what the
\* formatter returned for them.
C6_FormatterArguments ==
  \A w \in Made : \A j \in 1..Len(closeCalls[w]) :
    LET cl == closeCalls[w][j]
        r == OwnerOf(w)
        made == CHOOSE e \in {nextCalls[r][k] : k \in 1..Len(nextCalls[r])} : e.by = w
    IN /\ cl.at < Len(fmtCalls) /\ cl.at < Len(accessLog)
       /\ LET c == fmtCalls[cl.at + 1]
          IN /\ c.w = w
             /\ c.now = made.entered
             /\ c.now < cl.time
             /\ c.request = made.request
             /\ c.response = made.response
             /\ \E k \in 1..Len(stack) :
                  nextCalls[r][k].by = w /\ c.formatter = stack[k].formatter
             /\ c.body = Flatten(SubSeq(Args(w), 1, cl.writes))
             /\ accessLog[cl.at + 1] =
                  Format(c.formatter, c.now, c.response, c.request, c.body)

C6_Witness ==
  \E w \in Made : \E j \in 1..Len(closeCalls[w]) :
    /\ closeCalls[w][j].writes = 2
    /\ fmtCalls[closeCalls[w][j].at + 1].body # <<>>
    /\ fmtCalls[closeCalls[w][j].at + 1].now + 2 < closeCalls[w][j].time

\* ------------------------------------------------------------------ C7
\* C7: handling a request ran each layer of the stack once: each layer
\* constructed one Writer around the sink the response had on entry (the
\* original sink for the first layer, the previous layer's Writer after
\* that), with the layer's formatter and the request and response handled,
\* installed it as the response's active sink before calling next, and
\* called next once with the same response and request; right after the
\* handling nothing has been written to or closed on any of the Writers.
C7_MiddlewareInstallsWriter ==
  /\ \A r \in Requests :
       IF phase[r] # "handled"
       THEN nextCalls[r] = <<>> /\ respWriter[r] = BaseSink(r)
       ELSE /\ Len(nextCalls[r]) = Len(stack)
            /\ respWriter[r] = nextCalls[r][Len(stack)].by
            /\ \A j \in 1..Len(stack) :
                 LET e == nextCalls[r][j]
                 IN /\ e.by \in Made
                    /\ e.response = ResponseOf(r) /\ e.request = RequestOf(r)
                    /\ e.sink = e.by
                    /\ writers[e.by].writer =
                         (IF j = 1 THEN BaseSink(r) ELSE nextCalls[r][j - 1].by)
                    /\ writers[e.by].response = ResponseOf(r)
                    /\ writers[e.by].request = RequestOf(r)
                    /\ writers[e.by].formatter = stack[j].formatter
                    /\ writers[e.by].now = e.entered
  /\ \A w \in Made :
       Cardinality({<<r, j>> \in Requests \X (1..MaxLayers + 1) :
                      j <= Len(nextCalls[r]) /\ nextCalls[r][j].by = w}) = 1
  /\ last.op = "Dispatch" =>
       /\ sinkData[last.r] = <<>>
       /\ calls[BaseSink(last.r)] = <<>> /\ closeCalls[BaseSink(last.r)] = <<>>
       /\ \A j \in 1..Len(nextCalls[last.r]) :
            LET w == nextCalls[last.r][j].by
            IN writers[w].body = <<>> /\ calls[w] = <<>> /\ closeCalls[w] = <<>>

C7_Witness ==
  /\ last.op = "Dispatch"
  /\ Len(stack) = 2
  /\ Len(Chain(respWriter[last.r])) = 2

\* ------------------------------------------------------------------ C8
\* C8: of two requests through one middleware, each has its own Writer,
\* with the time of its own handling and the original sink of its own
\* response; the Writer's buffer, the sink's data and the body given to the
\* formatter hold only bytes written for that request; the Close of a
\* request prints exactly one line, for that request; and a step made for
\* one request leaves the Writer, the active sink and the sink data of the
\* other unchanged.
OwnBytes(r, seq) ==
  \A i \in 1..Len(seq) : seq[i] \in {Byte(r, 1), Byte(r, 2)}

C8_OwnState(r) ==
  /\ OwnBytes(r, sinkData[r])
  /\ Len(nextCalls[r]) = (IF phase[r] = "handled" THEN 1 ELSE 0)
  /\ Cardinality({i \in 1..Len(accessLog) : accessLog[i].request = RequestOf(r)})
       = PairBudget.close - budget[r].close
  /\ \A j \in 1..Len(nextCalls[r]) :
       LET w == nextCalls[r][j].by
       IN /\ writers[w].now = nextCalls[r][j].entered
          /\ BaseOf(w) = BaseSink(r)
          /\ OwnBytes(r, writers[w].body)
          /\ Len(calls[w]) = PairBudget.write - budget[r].write
          /\ writers[w].body = Flatten(Args(w))
          /\ Len(closeCalls[w]) = PairBudget.close - budget[r].close
          /\ Cardinality(FmtIdx(w)) = Len(closeCalls[w])
          /\ \A i \in FmtIdx(w) :
               /\ OwnBytes(r, fmtCalls[i].body)
               /\ fmtCalls[i].request = RequestOf(r)
               /\ accessLog[i].request = RequestOf(r)
               /\ accessLog[i].now = writers[w].now
  /\ \A q \in Requests \ {r} : \A j \in 1..Len(nextCalls[r]) :
       \A k \in 1..Len(nextCalls[q]) :
          /\ nextCalls[r][j].by # nextCalls[q][k].by
          /\ writers[nextCalls[r][j].by].now # writers[nextCalls[q][k].by].now

C8_Frame(r) ==
  last'.r # r =>
    /\ respWriter'[r] = respWriter[r]
    /\ sinkData'[r] = sinkData[r]
    /\ nextCalls'[r] = nextCalls[r]
    /\ \A j \in 1..Len(nextCalls[r]) :
         LET w == nextCalls[r][j].by
         IN writers'[w] = writers[w] /\ calls'[w] = calls[w]
            /\ closeCalls'[w] = closeCalls[w]
            /\ FmtIdx(w)' = FmtIdx(w)

C8_RequestsIndependent ==
  /\ [](\A r \in Requests : C8_OwnState(r))
  /\ [][\A r \in Requests : C8_Frame(r)]_vars

C8_Witness ==
  /\ Len(accessLog) = 2
  /\ accessLog[1].request # accessLog[2].request
  /\ accessLog[1].size > 0 /\ accessLog[2].size > 0
  /\ accessLog[1].now > accessLog[2].now

\* ------------------------------------------------------------------ C9
\* C9: a Write appends all of b to the buffer whatever the sink answers:
\* after a Write the buffer of the active Writer ends with b; the buffer
\* is longer than the data the sink accepted by exactly the bytes the sink
\* refused, so it equals the sink's data when every Write was accepted in
\* full; and the body given to the formatter is that buffer.
C9_BufferKeepsRefusedBytes ==
  /\ last.op = "Write" =>
       LET w == respWriter[last.r]
       IN IsWriter(w) /\ calls[w] # <<>>
          /\ IsSuffix(calls[w][Len(calls[w])].b, writers[w].body)
  /\ \A w \in Made :
       LET data == sinkData[OwnerOf(w)]
       IN /\ Len(writers[w].body) = Len(data) + Refused(calls[w])
          /\ Refused(calls[w]) = 0 => writers[w].body = data
          /\ \A j \in 1..Len(closeCalls[w]) :
               closeCalls[w][j].writes = Len(calls[w]) =>
                 fmtCalls[closeCalls[w][j].at + 1].body = writers[w].body

C9_Witness ==
  \E w \in Made :
    /\ Len(calls[w]) = 2
    /\ calls[w][2].err # Nil /\ calls[w][2].n = 1 /\ Len(calls[w][2].b) = 2
    /\ calls[w][1].err = Nil /\ calls[w][1].b # <<>>
    /\ \E j \in 1..Len(closeCalls[w]) :
         /\ closeCalls[w][j].writes = 2
         /\ Len(fmtCalls[closeCalls[w][j].at + 1].body) > Len(sinkData[OwnerOf(w)])

\* ------------------------------------------------------------------ C10
\* C10: with k log middlewares stacked on a request, every Close of the
\* response closes the k Writers from the outermost to the innermost,
\* printing k lines, one per Writer in that order; the original sink is
\* closed after them when it is an io.Closer; all k buffers hold the same
\* bytes; and the Close returns what the original sink's Close returned,
\* or nil when that sink is not an io.Closer.
C10_ChainClose ==
  \A r \in {q \in Requests : phase[q] = "handled"} :
    LET ch == Chain(respWriter[r])
        k == Len(ch)
        base == BaseSink(r)
        top == closeCalls[ch[1]]
    IN /\ k = Len(stack)
       /\ Len(top) = MaxCloses - budget[r].close
       /\ Len(accessLog) = k * Len(top)
       /\ Len(closeCalls[base]) = (IF closable[r] THEN Len(top) ELSE 0)
       /\ \A j \in 1..k :
            /\ writers[ch[j]].body = writers[ch[1]].body
            /\ Len(closeCalls[ch[j]]) = Len(top)
            /\ \A i \in 1..Len(top) :
                 /\ closeCalls[ch[j]][i].at = top[i].at + (j - 1)
                 /\ fmtCalls[top[i].at + j].w = ch[j]
                 /\ closeCalls[ch[j]][i].err =
                      (IF closable[r] THEN closeCalls[base][i].err ELSE Nil)
       /\ \A i \in 1..Len(closeCalls[base]) : closeCalls[base][i].at = top[i].at + k
       /\ (last.op = "Close" /\ last.r = r) => last.err = top[Len(top)].err

C10_Witness ==
  /\ Len(stack) = 2
  /\ last.op = "Close"
  /\ last.err # Nil
  /\ Len(accessLog) = 4
  /\ writers[1].body # <<>>
====
